---- MODULE Spec2Model ----
(***************************************************************************)
(* A model of the paste storage engine of hasty-paste:                     *)
(*   src/paste_bin/helpers.py      identifiers, paths, file I/O, try_get   *)
(*   src/paste_bin/core/models.py  the PasteMeta record and its codec      *)
(*                                                                         *)
(* Conventions.                                                            *)
(*  - A Python str is a sequence of one-character strings.                 *)
(*  - A datetime is [wall, tz]: the wall-clock reading and its zone, which *)
(*    is "naive" (no tzinfo), "utc" (+00:00) or "plus1" (+01:00).  Time is *)
(*    counted in whole units; the UTC clock is the variable now.           *)
(*  - An ISO timestamp is written "T" digits [suffix], the suffix being    *)
(*    "Z", "+0" or "+1": the shape of isoformat() with the calendar        *)
(*    collapsed to one number.                                             *)
(*  - An Optional value is None or Some(v).                                *)
(*  - A file is a sequence of bytes.  A byte is a newline, a content byte, *)
(*    or Json(o): the newline-free text json.dumps produces for object o   *)
(*    (json.dumps escapes every newline inside a string).                  *)
(*  - pydantic is the 1.x series (parse_raw, .json(), .dict(), validator): *)
(*    unknown keys are ignored, numbers and digit strings coerce to int    *)
(*    and to datetime, numbers coerce to str.                              *)
(***************************************************************************)
EXTENDS Integers, Sequences, FiniteSets, TLC

VARIABLES
    now,        \* the UTC clock read by datetime.utcnow()
    dirs,       \* the directories that exist under (and including) root
    files,      \* directory entries: path -> the inode linked there, or NoInode
    inodes,     \* inode -> its bytes
    creators,   \* creator -> the state of its create (write_paste) call
    callers,    \* caller -> the state of its try_get_paste[...] call
    codec,      \* the metadata codec exercised on its own
    resolver,   \* the path resolver exercised on its own
    api         \* the boundary's PasteApiCreate validation exercised on its own

vars == <<now, dirs, files, inodes, creators, callers, codec, resolver, api>>

-----------------------------------------------------------------------------
(* Bounds of the model.                                                    *)

MaxTime == 1
MaxIdLen == 4
MaxTitleLen == 34

-----------------------------------------------------------------------------
(* Program constants.                                                      *)

CURRENT_PASTE_META_VERSION == 1

\* len(paste_id) < 3 is refused
MinIdLen == 3

\* paste_id[:2] is the shard directory
ShardLen == 2

\* validate_title compares len(title) with 32
TitleLimit == 32

-----------------------------------------------------------------------------
(* Values.                                                                 *)

None == [some |-> FALSE]
Some(v) == [some |-> TRUE, v |-> v]

Tzs == {"naive", "utc", "plus1"}
DateTimes == [wall : 0..MaxTime, tz : Tzs]
DateTime(w, z) == [wall |-> w, tz |-> z]

\* the UTC offset of an aware datetime
UtcOffset(z) == IF z = "plus1" THEN 1 ELSE 0

\* the UTC instant an aware datetime denotes, a naive one being read as UTC
Instant(d) == d.wall - UtcOffset(d.tz)

Digits == <<"0", "1", "2", "3", "4", "5", "6", "7", "8", "9">>
IsDigit(c) == \E i \in 1..10 : Digits[i] = c
DigitVal(c) == (CHOOSE i \in 1..10 : Digits[i] = c) - 1
IsDigits(s) == Len(s) > 0 /\ \A i \in 1..Len(s) : IsDigit(s[i])

RECURSIVE ToInt(_)
ToInt(s) ==
    IF Len(s) = 0 THEN 0
    ELSE 10 * ToInt(SubSeq(s, 1, Len(s) - 1)) + DigitVal(s[Len(s)])

RECURSIVE DigitsOf(_)
DigitsOf(n) ==
    IF n < 10 THEN <<Digits[n + 1]>>
    ELSE DigitsOf(n \div 10) \o <<Digits[(n % 10) + 1]>>

\* bytes
NL == [t |-> "nl"]
Byte(c) == [t |-> "c", c |-> c]
Json(o) == [t |-> "json", obj |-> o]

\* JSON values
JNull == [k |-> "null"]
JNum(n) == [k |-> "num", n |-> n]
JStr(s) == [k |-> "str", s |-> s]
JList == [k |-> "list"]

-----------------------------------------------------------------------------
(* The metadata codec: pydantic's validators, PasteMeta.json() and the     *)
(* two-phase decoder.                                                      *)

Ok(v) == [ok |-> TRUE, v |-> v]
Fail == [ok |-> FALSE]

\* a faulty isoformat that loses the zone: strftime without %z
IsoFormatNoZone(d) == <<"T">> \o DigitsOf(d.wall)

\* datetime.isoformat(), as pydantic's .json() writes a datetime
IsoFormat(d) ==
    <<"T">> \o DigitsOf(d.wall) \o
        (CASE d.tz = "naive" -> <<>>
           [] d.tz = "utc" -> <<"+", "0">>
           [] d.tz = "plus1" -> <<"+", "1">>)

\* pydantic's parse_datetime on a str: a number is a unix timestamp (UTC),
\* otherwise the ISO pattern with an optional zone suffix
parse_datetime(s) ==
    IF IsDigits(s) THEN Ok(DateTime(ToInt(s), "utc"))
    ELSE IF Len(s) < 2 \/ s[1] # "T" THEN Fail
    ELSE LET body == Tail(s)
             n == Len(body)
         IN  IF IsDigits(body) THEN Ok(DateTime(ToInt(body), "naive"))
             ELSE IF body[n] = "Z" /\ IsDigits(SubSeq(body, 1, n - 1))
                  THEN Ok(DateTime(ToInt(SubSeq(body, 1, n - 1)), "utc"))
             ELSE IF n >= 3 /\ body[n - 1] = "+" /\ body[n] \in {"0", "1"}
                     /\ IsDigits(SubSeq(body, 1, n - 2))
                  THEN Ok(DateTime(ToInt(SubSeq(body, 1, n - 2)),
                                   IF body[n] = "0" THEN "utc" ELSE "plus1"))
             ELSE Fail

\* pydantic's validators of one JSON value
int_validator(j) ==
    CASE j.k = "num" -> Ok(j.n)
      [] j.k = "str" -> IF IsDigits(j.s) THEN Ok(ToInt(j.s)) ELSE Fail
      [] OTHER -> Fail

str_validator(j) ==
    CASE j.k = "str" -> Ok(j.s)
      [] j.k = "num" -> Ok(DigitsOf(j.n))
      [] OTHER -> Fail

datetime_validator(j) ==
    CASE j.k = "num" -> Ok(DateTime(j.n, "utc"))
      [] j.k = "str" -> parse_datetime(j.s)
      [] OTHER -> Fail

\* a field declared `name: T`
RequiredField(o, f, V(_)) ==
    IF f \notin DOMAIN o THEN Fail
    ELSE IF o[f] = JNull THEN Fail
    ELSE V(o[f])

\* a field declared `name: T = default`
DefaultedField(o, f, V(_), default) ==
    IF f \notin DOMAIN o THEN Ok(default)
    ELSE IF o[f] = JNull THEN Fail
    ELSE V(o[f])

\* a field declared `name: T | None = None`
OptionalField(o, f, V(_)) ==
    IF f \notin DOMAIN o THEN Ok(None)
    ELSE IF o[f] = JNull THEN Ok(None)
    ELSE LET r == V(o[f]) IN IF r.ok THEN Ok(Some(r.v)) ELSE Fail

\* json.loads of a line: the text of one object, trailing newline allowed
StripNewline(line) ==
    IF Len(line) > 0 /\ line[Len(line)] = NL
    THEN SubSeq(line, 1, Len(line) - 1) ELSE line

LoadObject(line) ==
    LET text == StripNewline(line)
    IN  IF Len(text) = 1 /\ text[1].t = "json" THEN Ok(text[1].obj) ELSE Fail

\* PasteMetaVersion.parse_raw(line).version
PasteMetaVersion_parse_raw(line) ==
    LET o == LoadObject(line)
    IN  IF ~o.ok THEN Fail
        ELSE DefaultedField(o.v, "version", int_validator,
                            CURRENT_PASTE_META_VERSION)

\* PasteMeta.parse_raw(line) of core/models.py
PasteMeta_parse_raw(line) ==
    LET o == LoadObject(line) IN
    IF ~o.ok THEN Fail
    ELSE LET version == DefaultedField(o.v, "version", int_validator,
                                       CURRENT_PASTE_META_VERSION)
             paste_id == RequiredField(o.v, "paste_id", str_validator)
             creation_dt == RequiredField(o.v, "creation_dt", datetime_validator)
             expire_dt == OptionalField(o.v, "expire_dt", datetime_validator)
             lexer_name == OptionalField(o.v, "lexer_name", str_validator)
             title == OptionalField(o.v, "title", str_validator)
         IN  IF version.ok /\ paste_id.ok /\ creation_dt.ok /\ expire_dt.ok
                /\ lexer_name.ok /\ title.ok
             THEN Ok([version |-> version.v, paste_id |-> paste_id.v,
                      creation_dt |-> creation_dt.v, expire_dt |-> expire_dt.v,
                      lexer_name |-> lexer_name.v, title |-> title.v])
             ELSE Fail

\* PasteMeta.parse_raw(line) of helpers.py: no lexer_name, no title
HelpersPasteMeta_parse_raw(line) ==
    LET o == LoadObject(line) IN
    IF ~o.ok THEN Fail
    ELSE LET version == DefaultedField(o.v, "version", int_validator,
                                       CURRENT_PASTE_META_VERSION)
             paste_id == RequiredField(o.v, "paste_id", str_validator)
             creation_dt == RequiredField(o.v, "creation_dt", datetime_validator)
             expire_dt == OptionalField(o.v, "expire_dt", datetime_validator)
         IN  IF version.ok /\ paste_id.ok /\ creation_dt.ok /\ expire_dt.ok
             THEN Ok([version |-> version.v, paste_id |-> paste_id.v,
                      creation_dt |-> creation_dt.v, expire_dt |-> expire_dt.v])
             ELSE Fail

Returned(v) == [kind |-> "return", v |-> v]
Raised(e) == [kind |-> e]
VersionInvalid(version) == [kind |-> "PasteMetaVersionInvalid", version |-> version]

\* a faulty decoder that validates the whole record before it looks at the
\* version
extract_from_line_full_first(line) ==
    LET meta == PasteMeta_parse_raw(line) IN
    IF ~meta.ok THEN Raised("PasteMetaUnprocessable")
    ELSE IF meta.v.version # CURRENT_PASTE_META_VERSION
         THEN VersionInvalid(meta.v.version)
    ELSE Returned(meta.v)

\* a faulty decoder without the `except ValidationError` clause
extract_from_line_uncaught(line) ==
    LET version == PasteMetaVersion_parse_raw(line) IN
    IF ~version.ok THEN Raised("ValidationError")
    ELSE IF version.v # CURRENT_PASTE_META_VERSION THEN VersionInvalid(version.v)
    ELSE LET meta == PasteMeta_parse_raw(line)
         IN  IF ~meta.ok THEN Raised("ValidationError")
             ELSE Returned(meta.v)

\* PasteMeta.extract_from_line of core/models.py
extract_from_line(line) ==
    LET version == PasteMetaVersion_parse_raw(line) IN
    IF ~version.ok THEN Raised("PasteMetaUnprocessable")
    ELSE IF version.v # CURRENT_PASTE_META_VERSION THEN VersionInvalid(version.v)
    ELSE LET meta == PasteMeta_parse_raw(line)
         IN  IF ~meta.ok THEN Raised("PasteMetaUnprocessable")
             ELSE Returned(meta.v)

\* get_paste_meta of helpers.py
get_paste_meta(meta_line) ==
    LET version == PasteMetaVersion_parse_raw(meta_line) IN
    IF ~version.ok THEN Raised("PasteMetaUnprocessable")
    ELSE IF version.v # CURRENT_PASTE_META_VERSION THEN VersionInvalid(version.v)
    ELSE LET meta == HelpersPasteMeta_parse_raw(meta_line)
         IN  IF ~meta.ok THEN Raised("PasteMetaUnprocessable")
             ELSE Returned(meta.v)

OptJson(x, W(_)) == IF x.some THEN JStr(W(x.v)) ELSE JNull
Identity(s) == s

\* paste_meta.json(): every field of the model, None written as null
PasteMeta_json(m) ==
    [f \in DOMAIN m |->
        CASE f = "version" -> JNum(m.version)
          [] f = "paste_id" -> JStr(m.paste_id)
          [] f = "creation_dt" -> JStr(IsoFormat(m.creation_dt))
          [] f = "expire_dt" -> OptJson(m.expire_dt, IsoFormat)
          [] OTHER -> OptJson(m[f], Identity)]

\* a faulty first write that forgets the newline
MetaLineNoNewline(m) == <<Json(PasteMeta_json(m))>>

\* paste_meta.json().encode() + b"\n"
MetaLine(m) == <<Json(PasteMeta_json(m)), NL>>

\* PasteMetaToCreate.into_meta
into_meta(to_create, paste_id, utcnow) ==
    [version |-> CURRENT_PASTE_META_VERSION,
     paste_id |-> paste_id,
     creation_dt |-> DateTime(utcnow, "naive"),
     expire_dt |-> to_create.expire_dt,
     lexer_name |-> to_create.lexer_name,
     title |-> to_create.title]

\* the fields helpers.py's PasteMeta keeps of a meta
HelpersFields == {"version", "paste_id", "creation_dt", "expire_dt"}
HelpersView(m) == [f \in HelpersFields |-> m[f]]

\* a faulty is_expired that reads a missing expire_dt as the epoch
HelpersIsExpiredNoneIsEpoch(m, utcnow) ==
    IF ~m.expire_dt.some THEN (IF 0 < utcnow THEN "True" ELSE "False")
    ELSE IF m.expire_dt.v.tz # "naive" THEN "TypeError"
    ELSE IF m.expire_dt.v.wall < utcnow THEN "True" ELSE "False"

\* a faulty is_expired whose comparison is reversed
HelpersIsExpiredReversed(m, utcnow) ==
    IF ~m.expire_dt.some THEN "False"
    ELSE IF m.expire_dt.v.tz # "naive" THEN "TypeError"
    ELSE IF m.expire_dt.v.wall > utcnow THEN "True" ELSE "False"

\* PasteMeta.is_expired of helpers.py: comparing an aware datetime with the
\* naive utcnow() raises TypeError
HelpersIsExpired(m, utcnow) ==
    IF ~m.expire_dt.some THEN "False"
    ELSE IF m.expire_dt.v.tz # "naive" THEN "TypeError"
    ELSE IF m.expire_dt.v.wall < utcnow THEN "True" ELSE "False"

\* PasteMeta.is_expired of core/models.py: replace(tzinfo=None) keeps the wall
\* reading and drops the zone
is_expired(m, utcnow) ==
    m.expire_dt.some /\ m.expire_dt.v.wall < utcnow

-----------------------------------------------------------------------------
(* Identifiers and paths.                                                  *)

\* secrets.token_urlsafe(7) and token_urlsafe(30): random tokens over the
\* URL-safe alphabet.  The model draws them from two small pools, so that two
\* draws can coincide, as two random tokens can.
ShortIds == {<<"a", "b", "c">>, <<"a", "b", "d">>}
LongIds == {<<"a", "b", "c", "d">>}

create_paste_id(long) == IF long THEN LongIds ELSE ShortIds

\* a pathlib path: its components below "/"
Root == [parts |-> <<<<"r">>>>]

\* the components of a path segment: split at "/", dropping "" and "."
RECURSIVE SplitParts(_, _)
SplitParts(s, cur) ==
    LET keep == IF cur = <<>> \/ cur = <<".">> THEN <<>> ELSE <<cur>>
    IN  IF Len(s) = 0 THEN keep
        ELSE IF Head(s) = "/" THEN keep \o SplitParts(Tail(s), <<>>)
        ELSE SplitParts(Tail(s), Append(cur, Head(s)))

\* pathlib's `path / segment`: an absolute segment replaces the path
PathJoin(p, s) ==
    IF Len(s) > 0 /\ s[1] = "/" THEN [parts |-> SplitParts(s, <<>>)]
    ELSE [parts |-> p.parts \o SplitParts(s, <<>>)]

\* the path and its ancestors: what mkdir(parents=True, exist_ok=True) leaves
Ancestors(p) == {[parts |-> SubSeq(p.parts, 1, n)] : n \in 0..Len(p.parts)}

\* full_path of create_paste_path: root_path / paste_id[:2]
ShardDir(root_path, paste_id) ==
    PathJoin(root_path, SubSeq(paste_id, 1, ShardLen))

\* a faulty resolver whose guard is off by one: len(paste_id) < 2
create_paste_path_short_guard(root_path, paste_id) ==
    IF Len(paste_id) < ShardLen THEN Raised("PasteIdException")
    ELSE Returned(PathJoin(ShardDir(root_path, paste_id),
                           SubSeq(paste_id, ShardLen + 1, Len(paste_id))))

\* a faulty resolver that names the file by one character: paste_id[2]
create_paste_path_one_char(root_path, paste_id) ==
    IF Len(paste_id) < MinIdLen THEN Raised("PasteIdException")
    ELSE Returned(PathJoin(ShardDir(root_path, paste_id),
                           SubSeq(paste_id, ShardLen + 1, ShardLen + 1)))

\* create_paste_path: what it raises or returns
create_paste_path(root_path, paste_id) ==
    IF Len(paste_id) < MinIdLen THEN Raised("PasteIdException")
    ELSE Returned(PathJoin(ShardDir(root_path, paste_id),
                           SubSeq(paste_id, ShardLen + 1, Len(paste_id))))

\* a faulty resolver that makes the shard directory whatever mkdir says
create_paste_path_dirs_always(ds, root_path, paste_id, mkdir) ==
    IF Len(paste_id) >= MinIdLen
    THEN ds \union Ancestors(ShardDir(root_path, paste_id))
    ELSE ds

\* create_paste_path: the directories afterwards
create_paste_path_dirs(ds, root_path, paste_id, mkdir) ==
    IF Len(paste_id) >= MinIdLen /\ mkdir
    THEN ds \union Ancestors(ShardDir(root_path, paste_id))
    ELSE ds

-----------------------------------------------------------------------------
(* Files.                                                                  *)

Creators == {"w1", "w2"}

\* g1 calls try_get_paste_with_content_response, g2 and g3 try_get_paste
Callers == {"g1", "g2", "g3"}
ContentCallers == {"g1"}

\* the calls one run may hold: two creates, a create and a streamed read, or
\* a create and two guarded reads
Teams == {{"w1", "w2"}, {"w1", "g1"}, {"w1", "g2", "g3"}}

\* the creates whose chunk source may fail
FaultySources == {"w1"}

\* an inode is named after the create call whose open() made it
NoInode == "none"

\* the first line of a file, newline included: fo.readline()
RECURSIVE readline(_)
readline(data) ==
    IF Len(data) = 0 THEN <<>>
    ELSE IF Head(data) = NL THEN <<NL>>
    ELSE <<Head(data)>> \o readline(Tail(data))

\* the bytes from position pos (0-based) on
From(data, pos) == SubSeq(data, pos + 1, Len(data))

\* fo.write(bytes) at the handle's position: overwrites, extends, and fills
\* a gap left by a truncation with zero bytes
WriteAt(data, pos, bytes) ==
    [i \in 1..(IF pos + Len(bytes) > Len(data) THEN pos + Len(bytes) ELSE Len(data)) |->
        IF i > pos /\ i <= pos + Len(bytes) THEN bytes[i - pos]
        ELSE IF i <= Len(data) THEN data[i]
        ELSE Byte("0")]

RECURSIVE Concat(_)
Concat(chunks) ==
    IF Len(chunks) = 0 THEN <<>> ELSE Head(chunks) \o Concat(Tail(chunks))

-----------------------------------------------------------------------------
(* The store: create (create_paste_id, create_paste_path, into_meta,       *)
(* write_paste) and the guarded read (try_get_paste,                       *)
(* try_get_paste_with_content_response).  Every await of the source is a   *)
(* step of its own, so calls interleave where the event loop lets them.    *)

\* what a create may ask for
StoreTzs == {"naive", "utc"}
ExpireChoices ==
    {None} \union {Some(DateTime(w, z)) : w \in 0..MaxTime, z \in StoreTzs}
ToCreates ==
    [expire_dt : ExpireChoices, lexer_name : {None}, title : {None}]
        \union {[expire_dt |-> None, lexer_name |-> Some(<<"p", "y">>),
                 title |-> Some(<<"t">>)]}

\* content: one buffer (gen = FALSE, a single chunk) or an async generator
Buffer(bytes) == [gen |-> FALSE, chunks |-> <<bytes>>]
Generator(chunks) == [gen |-> TRUE, chunks |-> chunks]
Contents ==
    {Buffer(<<Byte("h"), NL, Byte("i")>>),
     Generator(<<<<Byte("h")>>, <<NL, Byte("i")>>>>)}

\* the ids a caller may ask for: generated ones and one that is too short
RequestIds == {<<"a", "b", "c">>, <<"a", "b">>}

StorePaths == {create_paste_path(Root, id).v : id \in ShortIds \union LongIds}

IdleCreator ==
    [pc |-> "idle", paste_id |-> <<>>, path |-> Root, meta |-> None,
     content |-> Buffer(<<>>), todo |-> <<>>, handle |-> NoInode, pos |-> 0]

Pending == [kind |-> "pending"]

IdleCaller ==
    [pc |-> "idle", paste_id |-> <<>>, auto_remove |-> TRUE,
     with_content |-> FALSE, path |-> Root, handle |-> NoInode, pos |-> 0,
     decoded |-> Pending, cleanup |-> "none", result |-> Pending,
     chunks |-> <<>>, stream |-> "none", earlier |-> {}]

\* an inode nobody links or holds open is gone: its bytes are forgotten
Sweep(fs, ino, crs, cls) ==
    [k \in Creators |->
        IF (\E p \in StorePaths : fs[p] = k)
           \/ (\E c \in Creators : crs[c].handle = k)
           \/ (\E g \in Callers : cls[g].handle = k)
        THEN ino[k] ELSE <<>>]

\* aio_ospath.isfile(p); also whether open(p, "rb") and remove(p) find the file
Exists(p) == p \in StorePaths /\ files[p] # NoInode

\* the calls begun so far
Started ==
    {c \in Creators : creators[c].pc # "idle"}
        \union {g \in Callers : callers[g].pc # "idle"}

MayBegin(p) == \E team \in Teams : Started \union {p} \subseteq team

\* --- create -------------------------------------------------------------

\* the boundary's create, up to the call of write_paste: generate an id,
\* resolve its path creating the shard directory, build the meta
CreateBegin(c) ==
    /\ creators[c].pc = "idle"
    /\ MayBegin(c)
    /\ \E long \in BOOLEAN :
       \E paste_id \in create_paste_id(long) :
       \E to_create \in ToCreates :
       \E content \in Contents :
          /\ dirs' = create_paste_path_dirs(dirs, Root, paste_id, TRUE)
          /\ creators' = [creators EXCEPT ![c] =
                [pc |-> "open", paste_id |-> paste_id,
                 path |-> create_paste_path(Root, paste_id).v,
                 meta |-> into_meta(to_create, paste_id, now),
                 content |-> content, todo |-> content.chunks,
                 handle |-> NoInode, pos |-> 0]]
    /\ UNCHANGED <<now, files, inodes, callers, codec, resolver, api>>

\* write_paste: aio_open(paste_path, "wb") creates the file or truncates it
write_paste_open(c) ==
    LET w == creators[c]
        k == IF files[w.path] = NoInode THEN c ELSE files[w.path]
    IN  /\ w.pc = "open"
        /\ files' = [files EXCEPT ![w.path] = k]
        /\ inodes' = [inodes EXCEPT ![k] = <<>>]
        /\ creators' = [creators EXCEPT ![c].pc = "meta", ![c].handle = k,
                                        ![c].pos = 0]
        /\ UNCHANGED <<now, dirs, callers, codec, resolver, api>>

\* write_paste: fo.write(paste_meta.json().encode() + b"\n")
write_paste_meta(c) ==
    LET w == creators[c]
        line == MetaLine(w.meta)
    IN  /\ w.pc = "meta"
        /\ inodes' = [inodes EXCEPT ![w.handle] = WriteAt(@, w.pos, line)]
        /\ creators' = [creators EXCEPT ![c].pc = "content",
                                        ![c].pos = w.pos + Len(line)]
        /\ UNCHANGED <<now, dirs, files, callers, codec, resolver, api>>

\* write_paste: fo.write(chunk) for each chunk, or fo.write(content)
write_paste_content(c) ==
    LET w == creators[c] IN
    /\ w.pc = "content"
    /\ w.todo # <<>>
    /\ inodes' = [inodes EXCEPT ![w.handle] = WriteAt(@, w.pos, Head(w.todo))]
    /\ creators' = [creators EXCEPT ![c].todo = Tail(w.todo),
                                    ![c].pos = w.pos + Len(Head(w.todo))]
    /\ UNCHANGED <<now, dirs, files, callers, codec, resolver, api>>

\* write_paste: leaving `async with` closes the handle
write_paste_close(c) ==
    LET w == creators[c]
        after == [creators EXCEPT ![c].pc = "done", ![c].handle = NoInode]
    IN  /\ w.pc = "content"
        /\ w.todo = <<>>
        /\ creators' = after
        /\ inodes' = Sweep(files, inodes, after, callers)
        /\ UNCHANGED <<now, dirs, files, callers, codec, resolver, api>>

\* write_paste: the content generator raises instead of giving its next
\* chunk; the exception is on its way out of `async with`
write_paste_source_raises(c) ==
    LET w == creators[c] IN
    /\ c \in FaultySources
    /\ w.pc = "content"
    /\ w.content.gen
    /\ w.todo # <<>>
    /\ creators' = [creators EXCEPT ![c].pc = "raised"]
    /\ UNCHANGED <<now, dirs, files, inodes, callers, codec, resolver, api>>

\* write_paste: `async with` closes the handle before the exception leaves;
\* what was written so far stays in the file
write_paste_close_raised(c) ==
    LET w == creators[c]
        after == [creators EXCEPT ![c].pc = "failed", ![c].handle = NoInode]
    IN  /\ w.pc = "raised"
        /\ creators' = after
        /\ inodes' = Sweep(files, inodes, after, callers)
        /\ UNCHANGED <<now, dirs, files, callers, codec, resolver, api>>

\* --- try_get_paste ------------------------------------------------------

\* how the calls on paste_id that have ended so far ended, "removed" standing
\* for a removal that found the file: kept by a call from its beginning, to
\* tell the calls that came before it
Earlier(paste_id) ==
    LET ended == {h \in Callers : callers[h].pc = "done"
                                   /\ callers[h].paste_id = paste_id}
    IN  {callers[h].result.kind : h \in ended}
            \union {"removed" : h \in {e \in ended : callers[e].cleanup = "removed"}}

\* try_get_paste: create_paste_path(root_path, paste_id), without mkdir
try_get_begin(g) ==
    /\ callers[g].pc = "idle"
    /\ MayBegin(g)
    /\ \E paste_id \in RequestIds :
       \E auto_remove \in BOOLEAN :
          LET with_content == g \in ContentCallers
              r == create_paste_path(Root, paste_id)
          IN
          /\ dirs' = create_paste_path_dirs(dirs, Root, paste_id, FALSE)
          /\ callers' = [callers EXCEPT ![g] =
                [IdleCaller EXCEPT
                    !.paste_id = paste_id, !.auto_remove = auto_remove,
                    !.with_content = with_content,
                    !.earlier = Earlier(paste_id),
                    !.pc = IF r.kind = "return" THEN "isfile" ELSE "done",
                    !.path = IF r.kind = "return" THEN r.v ELSE Root,
                    !.result = IF r.kind = "return" THEN Pending ELSE r]]
    /\ UNCHANGED <<now, files, inodes, creators, codec, resolver, api>>

\* try_get_paste: if not await aio_ospath.isfile(paste_path): raise
try_get_isfile(g) ==
    LET r == callers[g] IN
    /\ r.pc = "isfile"
    /\ callers' = [callers EXCEPT ![g] =
          IF Exists(r.path) THEN [r EXCEPT !.pc = "open"]
          ELSE [r EXCEPT !.pc = "done",
                         !.result = Raised("PasteDoesNotExistException")]]
    /\ UNCHANGED <<now, dirs, files, inodes, creators, codec, resolver, api>>

\* read_paste_meta: aio_open(paste_path, "rb"); nothing catches the
\* FileNotFoundError of a file that has gone since isfile
read_paste_meta_open(g) ==
    LET r == callers[g] IN
    /\ r.pc = "open"
    /\ callers' = [callers EXCEPT ![g] =
          IF Exists(r.path)
          THEN [r EXCEPT !.pc = "readline", !.handle = files[r.path]]
          ELSE [r EXCEPT !.pc = "done", !.result = Raised("FileNotFoundError")]]
    /\ UNCHANGED <<now, dirs, files, inodes, creators, codec, resolver, api>>

\* read_paste_meta: meta = get_paste_meta(await fo.readline())
read_paste_meta_readline(g) ==
    LET r == callers[g] IN
    /\ r.pc = "readline"
    /\ callers' = [callers EXCEPT ![g] =
          [r EXCEPT !.pc = "close",
                    !.decoded = get_paste_meta(readline(inodes[r.handle]))]]
    /\ UNCHANGED <<now, dirs, files, inodes, creators, codec, resolver, api>>

\* try_get_paste, from the meta read_paste_meta returned to the first await
\* or exit: where the call goes next and what it raises or returns
try_get_expiry(path, paste_meta, auto_remove, utcnow) ==
    LET expired == HelpersIsExpired(paste_meta, utcnow) IN
    CASE expired = "TypeError" -> [pc |-> "done", result |-> Raised("TypeError")]
      [] expired = "True" /\ auto_remove -> [pc |-> "remove", result |-> Pending]
      [] expired = "True" /\ ~auto_remove ->
            [pc |-> "done", result |-> Raised("PasteExpiredException")]
      [] OTHER ->
            [pc |-> "done",
             result |-> Returned([path |-> path, meta |-> paste_meta])]

\* read_paste_meta: leaving `async with` closes the handle, on a decode
\* failure too; try_get_paste then checks paste_meta.is_expired
read_paste_meta_close(g) ==
    LET r == callers[g]
        next == IF r.decoded.kind # "return"
                THEN [pc |-> "done", result |-> r.decoded]
                ELSE try_get_expiry(r.path, r.decoded.v, r.auto_remove, now)
        streams == next.result.kind = "return" /\ r.with_content
        after == [callers EXCEPT ![g] =
                    [r EXCEPT !.handle = NoInode,
                              !.pc = IF streams THEN "content_open" ELSE next.pc,
                              !.result = next.result]]
    IN  /\ r.pc = "close"
        /\ callers' = after
        /\ inodes' = Sweep(files, inodes, creators, after)
        /\ UNCHANGED <<now, dirs, files, creators, codec, resolver, api>>

\* a faulty removal without the `except FileNotFoundError` clause
try_get_remove_raises_unswallowed(existed) ==
    IF existed THEN Raised("PasteExpiredException")
    ELSE Raised("FileNotFoundError")

\* try_get_paste: what the call raises after `await aio_os.remove(paste_path)`
\* inside try / except FileNotFoundError: pass
try_get_remove_raises(existed) == Raised("PasteExpiredException")

\* try_get_paste: the removal of an expired paste
try_get_remove(g) ==
    LET r == callers[g]
        after == [callers EXCEPT ![g] =
                    [r EXCEPT !.pc = "done",
                              !.cleanup = IF Exists(r.path) THEN "removed"
                                          ELSE "already_gone",
                              !.result = try_get_remove_raises(Exists(r.path))]]
        left == IF Exists(r.path) THEN [files EXCEPT ![r.path] = NoInode]
                ELSE files
    IN  /\ r.pc = "remove"
        /\ callers' = after
        /\ files' = left
        /\ inodes' = Sweep(left, inodes, creators, after)
        /\ UNCHANGED <<now, dirs, creators, codec, resolver, api>>

\* --- try_get_paste_with_content_response: the response's generator ------

\* read_paste_content: aio_open(paste_path, "rb"), when the response is sent
read_paste_content_open(g) ==
    LET r == callers[g] IN
    /\ r.pc = "content_open"
    /\ callers' = [callers EXCEPT ![g] =
          IF Exists(r.path)
          THEN [r EXCEPT !.pc = "content_skip", !.handle = files[r.path],
                         !.stream = "open"]
          ELSE [r EXCEPT !.pc = "done", !.stream = "FileNotFoundError"]]
    /\ UNCHANGED <<now, dirs, files, inodes, creators, codec, resolver, api>>

\* read_paste_content: _ = await fo.readline()
read_paste_content_skip(g) ==
    LET r == callers[g] IN
    /\ r.pc = "content_skip"
    /\ callers' = [callers EXCEPT ![g] =
          [r EXCEPT !.pc = "content_next",
                    !.pos = Len(readline(inodes[r.handle]))]]
    /\ UNCHANGED <<now, dirs, files, inodes, creators, codec, resolver, api>>

\* read_paste_content: async for line in fo: yield line
read_paste_content_next(g) ==
    LET r == callers[g]
        line == readline(From(inodes[r.handle], r.pos))
    IN  /\ r.pc = "content_next"
        /\ line # <<>>
        /\ callers' = [callers EXCEPT ![g] =
              [r EXCEPT !.chunks = Append(r.chunks, line),
                        !.pos = r.pos + Len(line)]]
        /\ UNCHANGED <<now, dirs, files, inodes, creators, codec, resolver, api>>

\* read_paste_content: at end of file the generator ends and the handle closes
read_paste_content_close(g) ==
    LET r == callers[g]
        after == [callers EXCEPT ![g] =
                    [r EXCEPT !.pc = "done", !.handle = NoInode,
                              !.stream = "end"]]
    IN  /\ r.pc = "content_next"
        /\ readline(From(inodes[r.handle], r.pos)) = <<>>
        /\ callers' = after
        /\ inodes' = Sweep(files, inodes, creators, after)
        /\ UNCHANGED <<now, dirs, files, creators, codec, resolver, api>>

\* a faulty generator that keeps its file open when it is closed early
read_paste_content_abandon_leaks(g) ==
    LET r == callers[g] IN
    /\ r.pc = "content_next"
    /\ r.chunks # <<>>
    /\ callers' = [callers EXCEPT ![g] =
          [r EXCEPT !.pc = "done", !.stream = "abandoned"]]
    /\ UNCHANGED <<now, dirs, files, inodes, creators, codec, resolver, api>>

\* read_paste_content: the consumer gives the stream up: the generator,
\* suspended at `yield line`, is closed (aclose), GeneratorExit leaves
\* `async with`, and the handle closes
read_paste_content_abandon(g) ==
    LET r == callers[g]
        after == [callers EXCEPT ![g] =
                    [r EXCEPT !.pc = "done", !.handle = NoInode,
                              !.stream = "abandoned"]]
    IN  /\ r.pc = "content_next"
        /\ r.chunks # <<>>
        /\ callers' = after
        /\ inodes' = Sweep(files, inodes, creators, after)
        /\ UNCHANGED <<now, dirs, files, creators, codec, resolver, api>>

\* time passes
Tick ==
    /\ now < MaxTime
    /\ now' = now + 1
    /\ UNCHANGED <<dirs, files, inodes, creators, callers, codec, resolver, api>>

-----------------------------------------------------------------------------
(* The store's specification.                                              *)

CodecOff == [stage |-> "off"]
ResolverOff == [stage |-> "off"]
ApiOff == [stage |-> "off"]

StoreInit ==
    /\ now = 0
    /\ dirs = Ancestors(Root)
    /\ files = [p \in StorePaths |-> NoInode]
    /\ inodes = [k \in Creators |-> <<>>]
    /\ creators = [c \in Creators |-> IdleCreator]
    /\ callers = [g \in Callers |-> IdleCaller]

Init ==
    /\ StoreInit
    /\ codec = CodecOff
    /\ resolver = ResolverOff
    /\ api = ApiOff

Next ==
    \/ Tick
    \/ \E c \in Creators :
          \/ CreateBegin(c)
          \/ write_paste_open(c)
          \/ write_paste_meta(c)
          \/ write_paste_content(c)
          \/ write_paste_close(c)
          \/ write_paste_source_raises(c)
          \/ write_paste_close_raised(c)
    \/ \E g \in Callers :
          \/ try_get_begin(g)
          \/ try_get_isfile(g)
          \/ read_paste_meta_open(g)
          \/ read_paste_meta_readline(g)
          \/ read_paste_meta_close(g)
          \/ try_get_remove(g)
          \/ read_paste_content_open(g)
          \/ read_paste_content_skip(g)
          \/ read_paste_content_next(g)
          \/ read_paste_content_close(g)
          \/ read_paste_content_abandon(g)

Spec == Init /\ [][Next]_vars

-----------------------------------------------------------------------------
(* The metadata codec on its own: a meta is encoded and the line decoded,  *)
(* or a stored line, well formed or not, is decoded.                       *)

Fields == {"version", "paste_id", "creation_dt", "expire_dt", "lexer_name", "title"}

JAbsent == [k |-> "absent"]

\* what a stored line may hold for each key
FieldChoices ==
    [version : {JAbsent, JNull, JNum(CURRENT_PASTE_META_VERSION), JNum(99),
                JStr(<<"1">>), JStr(<<"9", "9">>), JStr(<<"v">>), JList},
     paste_id : {JAbsent, JNull, JStr(<<"a", "b", "c">>), JNum(7), JList},
     creation_dt : {JAbsent, JStr(<<"T", "1">>), JStr(<<"T", "1", "+", "1">>),
                    JNum(1), JStr(<<"n", "o">>)},
     expire_dt : {JAbsent, JNull, JStr(<<"T", "0", "Z">>), JList},
     lexer_name : {JAbsent, JNull, JStr(<<"p", "y">>), JList},
     title : {JAbsent, JStr(<<"t">>), JList}]

Object(choice) == [f \in {g \in Fields : choice[g] # JAbsent} |-> choice[f]]

\* first lines: an object's text with its newline, without it (a file cut
\* short), nothing at all, bytes that are no JSON, an object followed by junk
CodecLines ==
    {<<Json(Object(ch)), NL>> : ch \in FieldChoices}
        \union {<<Json(Object(ch))>> : ch \in FieldChoices}
        \union {<<>>, <<NL>>, <<Byte("h"), NL>>}
        \union {<<Json(Object(ch)), Byte("h"), NL>> : ch \in FieldChoices}

\* the metas a create can build
CodecMetas ==
    {into_meta(tc, id, t) :
        tc \in [expire_dt : {None} \union {Some(d) : d \in DateTimes},
                lexer_name : {None, Some(<<"p", "y">>)},
                title : {None, Some(<<"t">>), Some(<<"4", "2">>)}],
        id \in ShortIds \union LongIds \union {<<"1", "2", "3">>},
        t \in 0..MaxTime}

CodecIdle(meta, line) ==
    [stage |-> IF meta.some THEN "meta" ELSE "line", meta |-> meta,
     line |-> line, by |-> "none", out |-> Pending]

CodecInit ==
    /\ StoreInit
    /\ resolver = ResolverOff
    /\ api = ApiOff
    /\ codec \in {CodecIdle(Some(m), <<>>) : m \in CodecMetas}
                   \union {CodecIdle(None, l) : l \in CodecLines}

\* write_paste's first write: the line of the meta
CodecEncode ==
    /\ codec.stage = "meta"
    /\ codec' = [codec EXCEPT !.stage = "line", !.line = MetaLine(codec.meta.v)]
    /\ UNCHANGED <<now, dirs, files, inodes, creators, callers, resolver, api>>

CodecExtractFromLine ==
    /\ codec.stage = "line"
    /\ codec' = [codec EXCEPT !.stage = "done", !.by = "extract_from_line",
                              !.out = extract_from_line(codec.line)]
    /\ UNCHANGED <<now, dirs, files, inodes, creators, callers, resolver, api>>

CodecGetPasteMeta ==
    /\ codec.stage = "line"
    /\ codec' = [codec EXCEPT !.stage = "done", !.by = "get_paste_meta",
                              !.out = get_paste_meta(codec.line)]
    /\ UNCHANGED <<now, dirs, files, inodes, creators, callers, resolver, api>>

\* the clock readings is_expired is asked at
ExpiryTimes == 0..(MaxTime + 1)

\* paste_meta.is_expired, of core/models.py and of helpers.py, at time t
CodecIsExpired ==
    /\ codec.stage = "meta"
    /\ \E t \in ExpiryTimes :
          codec' = [codec EXCEPT
                      !.stage = "expiry", !.by = "is_expired",
                      !.out = [utcnow |-> t,
                               core |-> is_expired(codec.meta.v, t),
                               helpers |-> HelpersIsExpired(
                                              HelpersView(codec.meta.v), t)]]
    /\ UNCHANGED <<now, dirs, files, inodes, creators, callers, resolver, api>>

CodecNext ==
    \/ CodecEncode
    \/ CodecExtractFromLine
    \/ CodecGetPasteMeta
    \/ CodecIsExpired

SpecCodec == CodecInit /\ [][CodecNext]_vars

-----------------------------------------------------------------------------
(* The path resolver on its own: an id is resolved, and resolved again.    *)

PathChars == {"a", "b", ".", "/"}
PathIds == UNION {[1..n -> PathChars] : n \in 0..MaxIdLen}

ResolverInit ==
    /\ StoreInit
    /\ codec = CodecOff
    /\ api = ApiOff
    /\ resolver \in {[stage |-> "new", paste_id |-> id, first |-> Pending,
                      second |-> Pending] : id \in PathIds}

ResolveFirst ==
    /\ resolver.stage = "new"
    /\ \E mkdir \in BOOLEAN :
          /\ dirs' = create_paste_path_dirs(dirs, Root, resolver.paste_id, mkdir)
          /\ resolver' = [resolver EXCEPT
                !.stage = "once",
                !.first = create_paste_path(Root, resolver.paste_id)]
    /\ UNCHANGED <<now, files, inodes, creators, callers, codec, api>>

ResolveSecond ==
    /\ resolver.stage = "once"
    /\ \E mkdir \in BOOLEAN :
          /\ dirs' = create_paste_path_dirs(dirs, Root, resolver.paste_id, mkdir)
          /\ resolver' = [resolver EXCEPT
                !.stage = "twice",
                !.second = create_paste_path(Root, resolver.paste_id)]
    /\ UNCHANGED <<now, files, inodes, creators, callers, codec, api>>

PathNext == ResolveFirst \/ ResolveSecond

SpecPath == ResolverInit /\ [][PathNext]_vars

-----------------------------------------------------------------------------
(* What the store holds, read in one piece: the result of a read that no   *)
(* other call interleaves with.                                            *)

\* the bytes of the file at path p
FileAt(p) == inodes[files[p]]

\* the lines of a byte string, as `async for line in fo` yields them
RECURSIVE Lines(_)
Lines(data) ==
    IF Len(data) = 0 THEN <<>>
    ELSE <<readline(data)>> \o Lines(From(data, Len(readline(data))))

\* read_paste_meta(p) on an existing file
read_paste_meta(p) == get_paste_meta(readline(FileAt(p)))

\* the chunks read_paste_content(p) yields on an existing file
read_paste_content(p) == Lines(From(FileAt(p), Len(readline(FileAt(p)))))

\* try_get_paste(root, paste_id, auto_remove = FALSE), run without interleaving
try_get_paste(paste_id, utcnow) ==
    LET r == create_paste_path(Root, paste_id) IN
    IF r.kind # "return" THEN r
    ELSE IF ~Exists(r.v) THEN Raised("PasteDoesNotExistException")
    ELSE LET m == read_paste_meta(r.v) IN
         IF m.kind # "return" THEN m
         ELSE try_get_expiry(r.v, m.v, FALSE, utcnow).result

\* expire_dt denotes an instant before t
InPast(m, t) == m.expire_dt.some /\ Instant(m.expire_dt.v) < t

-----------------------------------------------------------------------------
(* Claims about the guarded read.                                          *)

\* C1: for a paste created with expire_dt earlier than its creation time,
\* the try_get (auto_remove set) that reads it fails with Expired, and once
\* that call has returned no file is left at the resolved path.
C1_ExpiredAtCreationIsRemoved ==
    \A g \in Callers :
        LET r == callers[g] IN
        (/\ r.pc = "done"
         /\ r.auto_remove
         /\ r.decoded.kind = "return"
         /\ InPast(r.decoded.v, Instant(r.decoded.v.creation_dt)))
        => (r.result.kind = "PasteExpiredException" /\ ~Exists(r.path))

\* C2: the step in which a call learns the meta of an existing paste and
\* checks its expiry: if expire_dt is in the past the call fails with Expired
\* (at once, or after the removal it goes on to), it returns (path, meta)
\* only if expire_dt is not in the past, and no chunk is ever yielded by a
\* call that did not return.
C2_Checked(g) ==
    LET r == callers[g]
        q == callers'[g]
    IN  (r.pc = "close" /\ q.pc # "close" /\ r.decoded.kind = "return")
        => /\ InPast(r.decoded.v, now)
                => (q.result.kind = "PasteExpiredException" \/ q.pc = "remove")
           /\ q.result.kind = "return" => ~InPast(r.decoded.v, now)

C2_Removed(g) ==
    callers[g].pc = "remove" /\ callers'[g].pc # "remove"
        => callers'[g].result.kind = "PasteExpiredException"

C2_Yielded(g) ==
    callers'[g].chunks # <<>> => callers'[g].result.kind = "return"

C2_ExpiredContentNeverHandedOut ==
    [][\A g \in Callers : C2_Checked(g) /\ C2_Removed(g) /\ C2_Yielded(g)]_vars

\* C3: a file that vanishes because another caller removed it is never
\* surfaced as an unclassified error: no try_get ends in FileNotFoundError.
C3_VanishedFileIsClassified ==
    \A g \in Callers : callers[g].result.kind # "FileNotFoundError"

\* C4: expiry cleanup is idempotent: a call that went on to remove the
\* expired paste ends in Expired, also when the file was already gone at the
\* moment of the removal; the missing file is not reported.
C4_CleanupIsIdempotent ==
    \A g \in Callers :
        LET r == callers[g] IN
        r.cleanup # "none"
            => /\ r.auto_remove
               /\ r.pc = "done"
               /\ r.result.kind = "PasteExpiredException"

\* a call whose removal found the file already gone, ended in Expired
C4_Witness ==
    \E g \in Callers :
        /\ callers[g].cleanup = "already_gone"
        /\ callers[g].result.kind = "PasteExpiredException"

-----------------------------------------------------------------------------
(* Claims about the metadata codec (under SpecCodec).                      *)

Decoded == codec.stage = "done"
Loaded == LoadObject(codec.line)

\* the version key holds a JSON integer other than the supported version
OtherVersion(o) ==
    /\ "version" \in DOMAIN o
    /\ o["version"].k = "num"
    /\ o["version"].n # CURRENT_PASTE_META_VERSION

\* C5, as claimed: a line whose version is absent, or present and not the
\* supported version, fails with VersionInvalid.
C5_AbsentOrOtherVersionIsInvalid ==
    (Decoded /\ Loaded.ok
        /\ ("version" \notin DOMAIN Loaded.v \/ OtherVersion(Loaded.v)))
    => codec.out.kind = "PasteMetaVersionInvalid"

\* C5, amended: a line whose version is present and is an integer other than
\* the supported version fails with VersionInvalid carrying that version,
\* whatever the other fields hold; a line with no version is decoded as the
\* supported version and never fails with VersionInvalid.
C5_OtherVersionIsInvalid ==
    (Decoded /\ Loaded.ok)
    => /\ OtherVersion(Loaded.v)
            => codec.out = VersionInvalid(Loaded.v["version"].n)
       /\ "version" \notin DOMAIN Loaded.v
            => /\ codec.out.kind \in {"return", "PasteMetaUnprocessable"}
               /\ codec.out.kind = "return"
                    => codec.out.v.version = CURRENT_PASTE_META_VERSION

\* version 99 beside a paste_id that no schema accepts: VersionInvalid
C5_Witness ==
    /\ Decoded /\ Loaded.ok
    /\ OtherVersion(Loaded.v)
    /\ "paste_id" \in DOMAIN Loaded.v /\ Loaded.v["paste_id"] = JList
    /\ codec.out = VersionInvalid(99)

\* the record breaks the schema of the decoder that read it: helpers.py's
\* PasteMeta has no lexer_name and no title, and ignores the keys
SchemaViolated(o, by) ==
    \/ ~RequiredField(o, "paste_id", str_validator).ok
    \/ ~RequiredField(o, "creation_dt", datetime_validator).ok
    \/ ~OptionalField(o, "expire_dt", datetime_validator).ok
    \/ /\ by = "extract_from_line"
       /\ \/ ~OptionalField(o, "lexer_name", str_validator).ok
          \/ ~OptionalField(o, "title", str_validator).ok

SupportedVersion(o) ==
    /\ "version" \in DOMAIN o
    /\ o["version"] = JNum(CURRENT_PASTE_META_VERSION)

C10_MetaRoundTrip ==
    (Decoded /\ codec.by = "extract_from_line" /\ codec.meta.some)
    => codec.out = Returned(codec.meta.v)

\* a meta with an aware expire_dt, a lexer_name and a title came back
C10_Witness ==
    /\ Decoded /\ codec.by = "extract_from_line" /\ codec.meta.some
    /\ codec.meta.v.expire_dt.some /\ codec.meta.v.expire_dt.v.tz = "plus1"
    /\ codec.meta.v.lexer_name.some /\ codec.meta.v.title.some
    /\ codec.out = Returned(codec.meta.v)

-----------------------------------------------------------------------------
(* Claims about the path resolver (under SpecPath).                        *)

\* C7: an id shorter than 3 fails with IdentifierTooShort, any other
\* resolves to root / paste_id[0:2] / paste_id[2:], and resolving it again,
\* whatever directories exist by then, gives the same.
C7_PathResolution ==
    LET id == resolver.paste_id IN
    /\ resolver.stage # "new"
        => IF Len(id) < 3 THEN resolver.first = Raised("PasteIdException")
           ELSE resolver.first =
                    Returned(PathJoin(PathJoin(Root, SubSeq(id, 1, 2)),
                                      SubSeq(id, 3, Len(id))))
    /\ resolver.stage = "twice" => resolver.second = resolver.first

\* an id of exactly 3 characters resolved twice to root/ab/a
C7_Witness ==
    /\ resolver.stage = "twice"
    /\ resolver.paste_id = <<"a", "b", "a">>
    /\ resolver.second = Returned([parts |-> <<<<"r">>, <<"a", "b">>, <<"a">>>>])

-----------------------------------------------------------------------------
(* Claims about create.                                                    *)

Done(c) == creators[c].pc = "done"
NoExpiry(c) == ~creators[c].meta.expire_dt.some

\* the paste of create c is stored at its path: the file exists, its first
\* line decodes to the meta the create built, the rest is its content, and a
\* try_get on its id returns that path and meta
Stored(c) ==
    LET w == creators[c] IN
    /\ Exists(w.path)
    /\ read_paste_meta(w.path) = Returned(HelpersView(w.meta))
    /\ Concat(read_paste_content(w.path)) = Concat(w.content.chunks)
    /\ try_get_paste(w.paste_id, now)
          = Returned([path |-> w.path, meta |-> HelpersView(w.meta)])

\* C8, as claimed (two creates without expiry, as in Scenario E): after any
\* two creates the two ids resolve to two existing, distinct files, each
\* fetchable with its own metadata and content.
C8_TwoCreatesTwoPastes ==
    (Done("w1") /\ Done("w2") /\ NoExpiry("w1") /\ NoExpiry("w2"))
    => /\ creators["w1"].path # creators["w2"].path
       /\ Stored("w1") /\ Stored("w2")

\* C8, amended: the same of two creates that returned different ids.
C8_TwoIdsTwoPastes ==
    (Done("w1") /\ Done("w2") /\ NoExpiry("w1") /\ NoExpiry("w2")
        /\ creators["w1"].paste_id # creators["w2"].paste_id)
    => /\ creators["w1"].path # creators["w2"].path
       /\ Stored("w1") /\ Stored("w2")

\* two creates ended with a short and a long id, and both pastes are stored
C8_Witness ==
    /\ Done("w1") /\ Done("w2") /\ NoExpiry("w1") /\ NoExpiry("w2")
    /\ creators["w1"].paste_id = <<"a", "b", "c">>
    /\ creators["w2"].paste_id = <<"a", "b", "c", "d">>
    /\ Stored("w1") /\ Stored("w2")

\* no other create has touched the path of create c
Undisturbed(c) ==
    \A d \in Creators \ {c} :
        creators[d].pc = "idle" \/ creators[d].paste_id # creators[c].paste_id

\* C9: after a create without expiry, given a buffer or chunks, the file is
\* the meta line followed by the concatenated content (so chunks and their
\* concatenation as one buffer leave the same file), fetch_meta returns a
\* meta with version 1 and the created id, and the chunks fetch_content
\* yields concatenate to the content, the meta line excluded.
C9_CreateFetchRoundTrip ==
    \A c \in Creators :
        LET w == creators[c] IN
        (Done(c) /\ NoExpiry(c) /\ Undisturbed(c))
        => /\ Exists(w.path)
           /\ FileAt(w.path) = MetaLine(w.meta) \o Concat(w.content.chunks)
           /\ read_paste_meta(w.path).kind = "return"
           /\ read_paste_meta(w.path).v.version = 1
           /\ read_paste_meta(w.path).v.paste_id = w.paste_id
           /\ Concat(read_paste_content(w.path)) = Concat(w.content.chunks)

\* a paste written from chunks was fetched to its end by a call that
\* returned its id, and the chunks it yielded concatenate to the content
C9_Witness ==
    \E c \in Creators : \E g \in Callers :
        /\ Done(c) /\ NoExpiry(c) /\ creators[c].content.gen
        /\ callers[g].stream = "end"
        /\ callers[g].result.kind = "return"
        /\ callers[g].result.v.meta.version = 1
        /\ callers[g].result.v.meta.paste_id = creators[c].paste_id
        /\ Len(callers[g].chunks) = 2
        /\ Concat(callers[g].chunks) = Concat(creators[c].content.chunks)

-----------------------------------------------------------------------------
(* Claims about expiry.                                                    *)

\* the times the clock may still show, and one beyond
Later == now..(MaxTime + 1)

\* C11: a paste created with no expire_dt is never expired, at any later
\* time, by either is_expired; a call that read the meta of such a paste
\* never fails with Expired and never goes on to remove the file.
C11_NoExpiryNeverExpires ==
    /\ \A c \in Creators :
          (creators[c].pc # "idle" /\ NoExpiry(c))
          => \A t \in Later :
                /\ ~is_expired(creators[c].meta, t)
                /\ HelpersIsExpired(HelpersView(creators[c].meta), t) = "False"
    /\ \A g \in Callers :
          LET r == callers[g] IN
          (r.decoded.kind = "return" /\ ~r.decoded.v.expire_dt.some)
          => /\ r.result.kind # "PasteExpiredException"
             /\ r.pc # "remove"
             /\ r.cleanup = "none"

\* a paste without expire_dt, created before the clock advanced, was handed
\* out by a call with auto_remove set, and its file is still there
C11_Witness ==
    \E g \in Callers :
        LET r == callers[g] IN
        /\ r.pc = "done" /\ r.auto_remove
        /\ r.result.kind = "return"
        /\ ~r.result.v.meta.expire_dt.some
        /\ r.result.v.meta.creation_dt.wall < now
        /\ Exists(r.path)

-----------------------------------------------------------------------------
(* The boundary layer: handle_paste_exceptions around a route handler.     *)

\* the exception classes of helpers.py and the class each one extends
Bases ==
    [PasteException |-> "Exception",
     PasteMetaException |-> "Exception",
     PasteIdException |-> "PasteException",
     PasteDoesNotExistException |-> "PasteException",
     PasteExpiredException |-> "PasteException",
     PasteMetaUnprocessable |-> "PasteMetaException",
     PasteMetaVersionInvalid |-> "PasteMetaException"]

\* `except cls`: the raised class is cls or extends it
IsInstance(kind, cls) ==
    \/ kind = cls
    \/ kind \in DOMAIN Bases /\ Bases[kind] = cls

\* quart's abort(code)
Abort(code) == [kind |-> "abort", code |-> code]

\* handle_paste_exceptions: what the wrapped handler's call ends in, given
\* what the handler itself returned or raised; an exception of neither
\* family leaves the wrapper as it is
handle_paste_exceptions(result) ==
    IF result.kind = "return" THEN result
    ELSE IF IsInstance(result.kind, "PasteException") THEN Abort(404)
    ELSE IF IsInstance(result.kind, "PasteMetaException") THEN Abort(500)
    ELSE result

NotFoundKinds ==
    {"PasteIdException", "PasteDoesNotExistException", "PasteExpiredException"}
InternalFailureKinds == {"PasteMetaUnprocessable", "PasteMetaVersionInvalid"}

\* the five error kinds of the store go to their outcome
FiveKindsMapped ==
    /\ \A k \in NotFoundKinds : handle_paste_exceptions(Raised(k)) = Abort(404)
    /\ \A k \in InternalFailureKinds :
          handle_paste_exceptions(Raised(k)) = Abort(500)
    /\ handle_paste_exceptions(VersionInvalid(99)) = Abort(500)

\* C12: every error a store call ends in is turned into "not found" (404:
\* IdentifierTooShort, DoesNotExist, Expired) or "internal failure" (500:
\* VersionInvalid, Unprocessable); none passes through unmapped.
C12_EveryStoreErrorIsMapped ==
    /\ FiveKindsMapped
    /\ \A g \in Callers :
          LET r == callers[g] IN
          (r.pc = "done" /\ r.result.kind # "return")
          => handle_paste_exceptions(r.result) \in {Abort(404), Abort(500)}

-----------------------------------------------------------------------------
(* The boundary's request model on its own: a PasteApiCreate body is       *)
(* validated.                                                              *)

\* a title of n characters
TitleOf(n) == [i \in 1..n |-> "t"]

\* the bodies a client may send: content is a valid str throughout, and no
\* lexer_name is given
ApiBodies ==
    [title : {None} \union {Some(TitleOf(n)) : n \in 0..MaxTitleLen},
     long_id : BOOLEAN,
     expire_dt : {None} \union {Some(d) : d \in DateTimes}]

\* PasteApiCreate.validate_title
validate_title(title) ==
    IF title.some /\ Len(title.v) > TitleLimit THEN Raised("ValueError")
    ELSE Returned(title)

\* PasteApiCreate(**body): pydantic turns a validator's ValueError into a
\* ValidationError, otherwise the model holds the validated fields
PasteApiCreate(body) ==
    LET title == validate_title(body.title) IN
    IF title.kind # "return" THEN Raised("ValidationError")
    ELSE Returned([body EXCEPT !.title = title.v])

ApiInit ==
    /\ StoreInit
    /\ codec = CodecOff
    /\ resolver = ResolverOff
    /\ api \in {[stage |-> "received", body |-> b, out |-> Pending] :
                    b \in ApiBodies}

ApiValidate ==
    /\ api.stage = "received"
    /\ api' = [api EXCEPT !.stage = "validated", !.out = PasteApiCreate(api.body)]
    /\ UNCHANGED <<now, dirs, files, inodes, creators, callers, codec, resolver>>

ApiNext == ApiValidate

SpecApi == ApiInit /\ [][ApiNext]_vars

\* C13: the boundary accepts a title only when it is absent or shorter than
\* 32 characters; a title of 32 characters or more is rejected with a
\* validation error.
C13_TitleShorterThan32 ==
    api.stage = "validated"
    => IF ~api.body.title.some \/ Len(api.body.title.v) < 32
       THEN api.out = Returned(api.body)
       ELSE api.out = Raised("ValidationError")

-----------------------------------------------------------------------------
(* Claims about concurrent calls.                                          *)

\* the first line a call read did not decode
FirstLineBroken(g) ==
    callers[g].decoded.kind
        \in {"PasteMetaUnprocessable", "PasteMetaVersionInvalid"}

\* the content a call streamed to its end is all of what a create wrote there
StreamedWhole(g) ==
    \E c \in Creators :
        /\ creators[c].pc # "idle"
        /\ creators[c].path = callers[g].path
        /\ Concat(callers[g].chunks) = Concat(creators[c].content.chunks)

\* C14: create is atomic as seen by readers: a read that runs beside a
\* write_paste on the same id sees no paste or the whole paste, never a
\* first line that is missing or cut short, never a strict prefix of the
\* content.
C14_CreateIsAtomicToReaders ==
    \A g \in Callers :
        /\ ~FirstLineBroken(g)
        /\ callers[g].stream = "end" => StreamedWhole(g)

\* a step of a try_get call: no create moves and the clock stands
ReadStep == creators' = creators /\ now' = now /\ callers' # callers

\* the step is g's removal of the file at p: the file exists, its meta line
\* decodes, the meta is expired, and auto_remove is set
Removes(g, p) ==
    LET r == callers[g] IN
    /\ r.pc = "remove" /\ callers'[g].pc = "done"
    /\ r.path = p
    /\ r.auto_remove
    /\ r.decoded.kind = "return"
    /\ HelpersIsExpired(r.decoded.v, now) = "True"
    /\ Exists(p)
    /\ read_paste_meta(p) = r.decoded
    /\ files'[p] = NoInode

\* C15: a try_get changes the store in at most one way, the removal of the
\* file at the resolved path when the file exists, its meta decodes and is
\* expired, and auto_remove is set; otherwise directories, files and every
\* file's bytes stay as they are.
C15_TryGetFrame ==
    [][ReadStep
        => /\ dirs' = dirs
           /\ \A p \in StorePaths :
                 /\ files'[p] # files[p] => \E g \in Callers : Removes(g, p)
                 /\ files'[p] # NoInode => inodes'[files'[p]] = inodes[files[p]]
           /\ \A g \in Callers :
                 callers'[g].cleanup = "removed"
                    => /\ callers'[g].auto_remove
                       /\ callers'[g].decoded.kind = "return"
                       /\ callers'[g].result.kind = "PasteExpiredException"]_vars

\* one call removed the expired paste, another, without auto_remove, left
\* without touching the store
C15_Witness ==
    \E g, h \in Callers :
        /\ callers[g].cleanup = "removed" /\ ~Exists(callers[g].path)
        /\ callers[h].pc = "done" /\ ~callers[h].auto_remove
        /\ callers[h].result.kind = "PasteExpiredException"
        /\ callers[h].cleanup = "none"

-----------------------------------------------------------------------------
(* Claims about the life of one paste.                                     *)

ExpiredOrGone == {"PasteExpiredException", "PasteDoesNotExistException"}

C17_ReturnedMetaIsTheCreatedOne ==
    \A g \in Callers :
        LET r == callers[g] IN
        r.result.kind = "return"
        => /\ \E c \in Creators :
                 /\ creators[c].pc # "idle"
                 /\ creators[c].path = r.path
                 /\ \A f \in Fields :
                       /\ f \in DOMAIN r.result.v.meta
                       /\ r.result.v.meta[f] = creators[c].meta[f]
           /\ create_paste_path(Root, r.result.v.meta.paste_id)
                 = Returned(r.result.v.path)

\* what does hold of a returned meta: it agrees with the created one on the
\* four fields helpers.py's PasteMeta has
ReturnedMetaAgreesOnHelpersFields ==
    \A g \in Callers :
        LET r == callers[g] IN
        r.result.kind = "return"
        => /\ \E c \in Creators :
                 /\ creators[c].pc # "idle"
                 /\ creators[c].path = r.path
                 /\ r.result.v.meta = HelpersView(creators[c].meta)
           /\ create_paste_path(Root, r.result.v.meta.paste_id)
                 = Returned(r.result.v.path)

-----------------------------------------------------------------------------
(* Claims about file handles.                                              *)

\* where a create and a read are inside an `async with aio_open(...)`
WritingPcs == {"meta", "content", "raised"}
ReadingPcs == {"readline", "close", "content_skip", "content_next"}

\* C18: every store operation releases the handle it opened on every exit
\* path: outside the `async with` of write_paste, read_paste_meta and
\* read_paste_content (after normal completion, a decode failure, a failing
\* chunk source, or an abandoned content stream) no call holds a handle.
C18_HandlesAreReleased ==
    /\ \A c \in Creators :
          creators[c].pc \notin WritingPcs => creators[c].handle = NoInode
    /\ \A g \in Callers :
          callers[g].pc \notin ReadingPcs => callers[g].handle = NoInode

\* a create whose chunk source failed and a read whose stream was abandoned
\* have both ended, and neither holds a handle
C18_Witness ==
    \E c \in Creators : \E g \in Callers :
        /\ creators[c].pc = "failed" /\ creators[c].handle = NoInode
        /\ callers[g].stream = "abandoned" /\ callers[g].pc = "done"
        /\ callers[g].handle = NoInode

-----------------------------------------------------------------------------
(* Claims about is_expired (under SpecCodec).                              *)

\* C19: is_expired returns a boolean, true exactly when expire_dt is present
\* and denotes an instant strictly before the current UTC time, for an
\* expire_dt without a zone (read as UTC) and for one with a UTC offset.
C19_IsExpiredComparesInstants ==
    codec.stage = "expiry"
    => LET expected == InPast(codec.meta.v, codec.out.utcnow) IN
       /\ codec.out.core = expected
       /\ codec.out.helpers = (IF expected THEN "True" ELSE "False")

\* what does hold: for an expire_dt that is absent or has no zone, both
\* is_expired agree with the comparison of instants
IsExpiredRightWithoutZone ==
    (codec.stage = "expiry"
        /\ (~codec.meta.v.expire_dt.some \/ codec.meta.v.expire_dt.v.tz = "naive"))
    => LET expected == InPast(codec.meta.v, codec.out.utcnow) IN
       /\ codec.out.core = expected
       /\ codec.out.helpers = (IF expected THEN "True" ELSE "False")

-----------------------------------------------------------------------------
(* Claims about path containment (under SpecPath).                         *)

\* the path lies below root, exactly two levels down, and no component
\* climbs back up
TwoLevelsBelowRoot(p) ==
    /\ Len(p.parts) = Len(Root.parts) + 2
    /\ SubSeq(p.parts, 1, Len(Root.parts)) = Root.parts
    /\ \A i \in 1..Len(p.parts) : p.parts[i] # <<".", ".">>

\* no other id of length >= 3 resolves to the same path
ResolvesAlone(id, r) ==
    \A other \in PathIds :
        (Len(other) >= MinIdLen /\ other # id)
            => create_paste_path(Root, other) # r

\* C20: every paste_id of length >= 3 that path resolution accepts, ids made
\* of '.' and '/' included, resolves to a path strictly inside root, exactly
\* two levels below it (root/shard/file), and two distinct ids never resolve
\* to the same path.
C20_PathContainment ==
    (resolver.stage # "new" /\ resolver.first.kind = "return")
    => /\ TwoLevelsBelowRoot(resolver.first.v)
       /\ ResolvesAlone(resolver.paste_id, resolver.first)

\* what does hold: an id without '/' and '.' resolves two levels below root,
\* and no other such id resolves to the same path
PlainId(id) == \A i \in 1..Len(id) : id[i] \notin {"/", "."}

PlainIdsAreContained ==
    (resolver.stage # "new" /\ resolver.first.kind = "return"
        /\ PlainId(resolver.paste_id))
    => /\ TwoLevelsBelowRoot(resolver.first.v)
       /\ \A other \in PathIds :
             (Len(other) >= MinIdLen /\ other # resolver.paste_id
                 /\ PlainId(other))
             => create_paste_path(Root, other) # resolver.first

====
